---- MODULE Spec2Model ----
(***************************************************************************)
(* Model of convex-ffi (src/convex-ffi/src/lib.rs): the Client handle with *)
(* its session slot behind an async mutex, one Subscription with its       *)
(* spawned task, and the FfiConverter codec of Value and its collections.  *)
(***************************************************************************)
EXTENDS Integers, Sequences, FiniteSets, TLC

\* ------------------------------------------------------------------ bounds
\* Largest number of items the server pushes on the feed of the subscription.
MaxFeed == 2

\* Foreign threads calling into the Client handle.
Callers == {1, 2}

\* Payloads of FunctionResult::Value items on the feed.
Payloads == {"v1", "v2"}

\* ------------------------------------------------------------------- state
VARIABLES
    inner,      \* Client._inner: 0 is None, c > 0 the session caller c's connect made
    lock,       \* holder of the tokio Mutex around _inner: 0 is free
    cpc,        \* per caller: "idle", "lock" (awaiting the lock), "new", "remote"
    cop,        \* per caller: the operation in progress, "none" when idle
    cres,       \* per caller: what the last finished operation returned
    newres,     \* per caller: what ConvexClient::new gave the last connect
    sub,        \* the Subscription handle: "none", "live", "dropped"
    sender,     \* Subscription.sender: "None" or "Some"
    chan,       \* the oneshot channel: "empty" or "sent"
    recancel,   \* a cancel() call found the sender already taken
    nsend,      \* number of times Sender::send was called
    task,       \* the spawned task: "none", "loop", "select", "update", "exited"
    active,     \* Callback.update invocations in progress
    feed,       \* items the QuerySubscription stream has ready, oldest first
    feedEnd,    \* the server closed the feed
    afterEnd,   \* what the ended stream answers to further polls
    consumed,   \* items the task took from the stream, in order
    delivered,  \* values passed to Callback.update, in order
    sawEnd,     \* the task took end-of-stream (None) from the stream
    kphase,     \* codec run: "off", "start", "written", "read", "panic"
    kval,       \* codec run: the Value lowered across the boundary
    kperm,      \* codec run: order in which the top-level elements were written
    ktail,      \* codec run: bytes that follow the encoding in the buffer
    kbuf,       \* codec run: the buffer
    kout,       \* codec run: what try_read returned
    kkind,      \* length run: "Object", "Map" or "Set"
    klen,       \* length run: obj.len(), a usize as four 16-bit limbs
    kres        \* length run: outcome of the length prefix of write

cvars == <<inner, lock, cpc, cop, cres, newres>>
svars == <<sub, sender, chan, recancel, nsend, task, active, feed, feedEnd, afterEnd,
           consumed, delivered, sawEnd>>
kvars == <<kphase, kval, kperm, ktail, kbuf, kout, kkind, klen, kres>>
vars == <<cvars, svars, kvars>>

None == 0

Ops == {"connect", "close", "query", "mutation", "action", "subscribe"}
DataOps == {"query", "mutation", "action"}
GuardedOps == DataOps \cup {"subscribe"}

\* FunctionResult: Value(value) or ErrorMessage(message).
FunctionResult ==
    [tag : {"Value"}, value : Payloads] \cup [tag : {"ErrorMessage"}, value : {"msg"}]

\* ------------------------------------------------------------ Client handle
\* Client::new: _inner is Mutex::new(None).
new == None

\* Mutant of client: the slot is not looked at.
client_unchecked(slot) == "Ok"

\* Client::client: Ok(guard) when the slot holds a session, else the Generic
\* "No client set" error.
client(slot) == IF slot # None THEN "Ok" ELSE "NoClientSet"

\* Mutant of connect_install: a failed attempt empties the slot.
connect_install_clear(slot, c, ok) == IF ok THEN c ELSE None

\* Client::connect, after ConvexClient::new returned: `if let Ok(client) =
\* client { inner.replace(client) }`; an Err leaves the slot as it was.
connect_install(slot, c, ok) == IF ok THEN c ELSE slot

\* Client::close: `take()` empties the slot.
close_take(slot) == None

\* query/mutation/action: `.await.unwrap()` then the match on FunctionResult.
function_result(r) ==
    CASE r = "Value" -> "Value"
      [] r = "ErrorMessage" -> "Generic"
      [] OTHER -> "panic"

\* Mutant of lock_ready: the lock is handed out while another guard lives.
lock_ready_unfenced(holder) == TRUE

\* `self._inner.lock().await` (lines 173, 182, 264): the tokio Mutex gives its
\* guard only while no other guard is alive.
lock_ready(holder) == holder = 0

\* A foreign thread starts an operation on the handle.
Call(c, op) ==
    /\ cpc[c] = "idle"
    /\ op = "subscribe" => (sub = "none" /\ \A d \in Callers : cop[d] # "subscribe")
    /\ cpc' = [cpc EXCEPT ![c] = "lock"]
    /\ cop' = [cop EXCEPT ![c] = op]
    /\ cres' = [cres EXCEPT ![c] = "none"]
    /\ newres' = [newres EXCEPT ![c] = "none"]
    /\ UNCHANGED <<inner, lock>>
    /\ UNCHANGED <<svars, kvars>>

\* connect, line 173: the lock is acquired, ConvexClient::new is awaited.
connect_lock(c) ==
    /\ cpc[c] = "lock" /\ cop[c] = "connect" /\ lock_ready(lock)
    /\ lock' = c
    /\ cpc' = [cpc EXCEPT ![c] = "new"]
    /\ UNCHANGED <<inner, cop, cres, newres>>
    /\ UNCHANGED <<svars, kvars>>

\* connect, lines 175-179: ConvexClient::new returned Ok or Err; the guard drops.
connect(c) ==
    /\ cpc[c] = "new" /\ lock = c
    /\ \E ok \in BOOLEAN :
         /\ inner' = connect_install(inner, c, ok)
         /\ newres' = [newres EXCEPT ![c] = IF ok THEN "Ok" ELSE "Err"]
    /\ lock' = 0
    /\ cpc' = [cpc EXCEPT ![c] = "idle"]
    /\ cop' = [cop EXCEPT ![c] = "none"]
    /\ cres' = [cres EXCEPT ![c] = "unit"]
    /\ UNCHANGED <<svars, kvars>>

\* close, line 182: lock, take, unlock in one statement.
close(c) ==
    /\ cpc[c] = "lock" /\ cop[c] = "close" /\ lock_ready(lock)
    /\ inner' = close_take(inner)
    /\ cpc' = [cpc EXCEPT ![c] = "idle"]
    /\ cop' = [cop EXCEPT ![c] = "none"]
    /\ cres' = [cres EXCEPT ![c] = "unit"]
    /\ UNCHANGED <<lock, newres>>
    /\ UNCHANGED <<svars, kvars>>

\* `self.client().await?` of query/mutation/action/subscribe: with a session the
\* guard is kept and the ConvexClient method is called; without one the error
\* returns at once and the guard drops.
client_guard(c) ==
    /\ cpc[c] = "lock" /\ cop[c] \in GuardedOps /\ lock_ready(lock)
    /\ IF client(inner) = "Ok"
       THEN /\ lock' = c
            /\ cpc' = [cpc EXCEPT ![c] = "remote"]
            /\ UNCHANGED <<cop, cres>>
       ELSE /\ cpc' = [cpc EXCEPT ![c] = "idle"]
            /\ cop' = [cop EXCEPT ![c] = "none"]
            /\ cres' = [cres EXCEPT ![c] = client(inner)]
            /\ UNCHANGED lock
    /\ UNCHANGED <<inner, newres>>
    /\ UNCHANGED <<svars, kvars>>

\* The awaited ConvexClient call of a data operation returns.
remote_return(c, op) ==
    /\ cpc[c] = "remote" /\ cop[c] = op /\ lock = c
    /\ \E r \in {"Value", "ErrorMessage", "TransportErr"} :
         cres' = [cres EXCEPT ![c] = function_result(r)]
    /\ lock' = 0
    /\ cpc' = [cpc EXCEPT ![c] = "idle"]
    /\ cop' = [cop EXCEPT ![c] = "none"]
    /\ UNCHANGED <<inner, newres>>
    /\ UNCHANGED <<svars, kvars>>

query(c) == remote_return(c, "query")
mutation(c) == remote_return(c, "mutation")
action(c) == remote_return(c, "action")

\* --------------------------------------------------------- the Subscription
\* `subscription.next()`: the oldest ready item, end-of-stream once the feed is
\* closed and drained, else Pending.  A stream polled again after it yielded
\* None answers as afterEnd says: None again, or Pending for ever.
stream_next ==
    IF feed # <<>> THEN "Some"
    ELSE IF feedEnd /\ (~sawEnd \/ afterEnd = "None") THEN "None"
    ELSE "Pending"

\* `unsubscribe_fut`: the fused oneshot Receiver, ready once () was sent.
unsubscribe_fut == IF chan = "sent" THEN "Ready" ELSE "Pending"

\* select_biased!: the branches are polled in the order written, the stream
\* first (line 204), the receiver second (line 216); the first ready one runs.
select_biased(stream, unsub) ==
    IF stream # "Pending" THEN "stream"
    ELSE IF unsub # "Pending" THEN "unsubscribe"
    ELSE "pending"

\* Mutant of on_result: an ErrorMessage goes to the callback too.
on_result_all(item) == "update"

\* The match of lines 205-214 on what the stream yielded.
on_result(item) ==
    IF item.tag = "Value" THEN "update" ELSE "log"

\* subscribe, lines 194-225: the awaited ConvexClient::subscribe returned; on
\* Ok the channel is made, the task spawned and the handle returned; an Err
\* panics in unwrap.  The guard drops either way.
subscribe(c) ==
    /\ cpc[c] = "remote" /\ cop[c] = "subscribe" /\ lock = c
    /\ \E ok \in BOOLEAN :
         IF ok
         THEN /\ cres' = [cres EXCEPT ![c] = "Subscription"]
              /\ sub' = "live"
              /\ sender' = "Some"
              /\ chan' = "empty"
              /\ task' = "select"
         ELSE /\ cres' = [cres EXCEPT ![c] = "panic"]
              /\ UNCHANGED <<sub, sender, chan, task>>
    /\ lock' = 0
    /\ cpc' = [cpc EXCEPT ![c] = "idle"]
    /\ cop' = [cop EXCEPT ![c] = "none"]
    /\ UNCHANGED kvars
    /\ UNCHANGED <<inner, newres, recancel, nsend, afterEnd, active, feed, feedEnd, consumed, delivered, sawEnd>>

\* The server pushes one more result on the feed.
feed_push(item) ==
    /\ task \in {"loop", "select", "update"}
    /\ ~feedEnd
    /\ Len(consumed) + Len(feed) < MaxFeed
    /\ feed' = Append(feed, item)
    /\ UNCHANGED <<cvars, kvars>>
    /\ UNCHANGED <<sub, sender, chan, recancel, nsend, task, active, feedEnd, afterEnd,
                   consumed, delivered, sawEnd>>

\* The server closes the feed.
feed_close ==
    /\ task \in {"loop", "select", "update"}
    /\ ~feedEnd
    /\ feedEnd' = TRUE
    /\ UNCHANGED <<cvars, kvars>>
    /\ UNCHANGED <<sub, sender, chan, recancel, nsend, task, active, feed, afterEnd,
                   consumed, delivered, sawEnd>>

\* Line 202, `loop {` after a round that did nothing: the next round builds
\* `subscription.next().fuse()` and enters the select.
loop ==
    /\ task = "loop"
    /\ task' = "select"
    /\ UNCHANGED <<cvars, kvars>>
    /\ UNCHANGED <<sub, sender, chan, recancel, nsend, active, feed, feedEnd, afterEnd,
                   consumed, delivered, sawEnd>>

\* Mutant of task_update: the callback is started and not waited for.
task_update_detached ==
    /\ task = "select"
    /\ feed # <<>>
    /\ Head(feed).tag = "Value"
    /\ consumed' = Append(consumed, Head(feed))
    /\ feed' = Tail(feed)
    /\ delivered' = Append(delivered, Head(feed).value)
    /\ active' = active + 1
    /\ UNCHANGED <<cvars, kvars>>
    /\ UNCHANGED <<sub, sender, chan, recancel, nsend, task, feedEnd, afterEnd, sawEnd>>

\* Loop body, stream branch with Some(FunctionResult::Value): line 208 calls
\* callback.update(value.into()).
task_update ==
    /\ task = "select"
    /\ select_biased(stream_next, unsubscribe_fut) = "stream"
    /\ stream_next = "Some"
    /\ on_result(Head(feed)) = "update"
    /\ consumed' = Append(consumed, Head(feed))
    /\ feed' = Tail(feed)
    /\ delivered' = Append(delivered, Head(feed).value)
    /\ active' = active + 1
    /\ task' = "update"
    /\ UNCHANGED <<cvars, kvars>>
    /\ UNCHANGED <<sub, sender, chan, recancel, nsend, feedEnd, afterEnd, sawEnd>>

\* callback.update returns; the loop goes round to the select.
update_return ==
    /\ task = "update"
    /\ active' = active - 1
    /\ task' = "select"
    /\ UNCHANGED <<cvars, kvars>>
    /\ UNCHANGED <<sub, sender, chan, recancel, nsend, feed, feedEnd, afterEnd, consumed,
                   delivered, sawEnd>>

\* Loop body, stream branch with Some(FunctionResult::ErrorMessage): line 211
\* logs it; the loop goes round.
task_error ==
    /\ task = "select"
    /\ select_biased(stream_next, unsubscribe_fut) = "stream"
    /\ stream_next = "Some"
    /\ on_result(Head(feed)) = "log"
    /\ consumed' = Append(consumed, Head(feed))
    /\ feed' = Tail(feed)
    /\ UNCHANGED <<cvars, kvars>>
    /\ UNCHANGED <<sub, sender, chan, recancel, nsend, task, active, feedEnd, afterEnd,
                   delivered, sawEnd>>

\* Loop body, stream branch with None: `if let Some(result) = result` has no
\* else, so nothing is done and control is back at `loop {`.  What the ended
\* stream answers from then on is fixed when it first yields None.
task_none ==
    /\ task = "select"
    /\ select_biased(stream_next, unsubscribe_fut) = "stream"
    /\ stream_next = "None"
    /\ sawEnd' = TRUE
    /\ IF sawEnd THEN UNCHANGED afterEnd ELSE \E a \in {"None", "Pending"} : afterEnd' = a
    /\ task' = "loop"
    /\ UNCHANGED <<cvars, kvars>>
    /\ UNCHANGED <<sub, sender, chan, recancel, nsend, active, feed, feedEnd,
                   consumed, delivered>>

\* Loop body, unsubscribe branch: line 217 breaks, the task ends and drops the
\* stream, the callback and the receiver.
task_break ==
    /\ task = "select"
    /\ select_biased(stream_next, unsubscribe_fut) = "unsubscribe"
    /\ task' = "exited"
    /\ UNCHANGED <<cvars, kvars>>
    /\ UNCHANGED <<sub, sender, chan, recancel, nsend, active, feed, feedEnd, afterEnd,
                   consumed, delivered, sawEnd>>

\* Mutant of take: the sender is left in the Option.
take_keep(opt) == opt

\* `sender.take()`: the Option is left None.
take(opt) == "None"

\* Body of Subscription::cancel, lines 283-287: a sender still there is taken
\* and () sent on it; send fails, and is ignored, when the receiver is gone.
cancel_body ==
    IF sender = "Some"
    THEN /\ sender' = take(sender)
         /\ nsend' = nsend + 1
         /\ chan' = IF task = "exited" THEN chan ELSE "sent"
    ELSE UNCHANGED <<sender, nsend, chan>>

\* Subscription::cancel called from the foreign side.
cancel ==
    /\ sub = "live"
    /\ recancel' = (recancel \/ sender = "None")
    /\ cancel_body
    /\ UNCHANGED <<cvars, kvars>>
    /\ UNCHANGED <<sub, task, active, feed, feedEnd, afterEnd, consumed, delivered,
                   sawEnd>>

\* Drop for Subscription, lines 291-296: the last reference goes, drop calls
\* cancel.
drop ==
    /\ sub = "live"
    /\ cancel_body
    /\ sub' = "dropped"
    /\ UNCHANGED <<cvars, kvars>>
    /\ UNCHANGED <<recancel, task, active, feed, feedEnd, afterEnd, consumed, delivered, sawEnd>>

\* ------------------------------------------------------------ the Value model
\* enum Value, lines 304-316, in declaration order.  A Value is a record of its
\* variant tag, a scalar payload sc and the contained Values kids:
\*   Id, String, Bytes   sc is the byte string
\*   Null                nothing
\*   Int                 sc = <<n>>
\*   Float               sc is the f64 bit pattern as four 16-bit limbs
\*   Bool                sc = <<0>> or <<1>>
\*   Array               kids are the elements
\*   Set                 kids are the elements in BTreeSet order
\*   Map                 kids are k1, v1, k2, v2, ... in BTreeMap key order
\*   Object              as Map, each key a String
Tags == <<"Id", "Null", "Int", "Float", "Bool", "String", "Bytes", "Array", "Set",
          "Map", "Object">>

\* Position of a variant in the enum: its rank in the derived Ord and the
\* variant index the derived FfiConverter writes.
Discriminant(tag) == CHOOSE i \in 1..Len(Tags) : Tags[i] = tag

V(tag, sc, kids) == [tag |-> tag, sc |-> sc, kids |-> kids]

NullV == V("Null", <<>>, <<>>)
IntV(n) == V("Int", <<n>>, <<>>)
FloatV(w) == V("Float", w, <<>>)
BoolV(b) == V("Bool", <<b>>, <<>>)
StringV(s) == V("String", s, <<>>)
BytesV(s) == V("Bytes", s, <<>>)
IdV(s) == V("Id", s, <<>>)

\* Ord of integers, byte strings and String: element by element, a proper
\* prefix first.
RECURSIVE LexInt(_, _)
LexInt(a, b) ==
    IF a = <<>> THEN (IF b = <<>> THEN 0 ELSE -1)
    ELSE IF b = <<>> THEN 1
    ELSE IF a[1] < b[1] THEN -1
    ELSE IF a[1] > b[1] THEN 1
    ELSE LexInt(Tail(a), Tail(b))

\* f64 read off the limbs: NaN has all exponent bits set and a mantissa # 0.
IsNaN(w) == (w[1] % 32768) \div 16 = 2047 /\ <<w[1] % 16, w[2], w[3], w[4]>> # <<0, 0, 0, 0>>
Mag(w) == <<w[1] % 32768, w[2], w[3], w[4]>>
Neg(w) == w[1] >= 32768

\* Ord of Float64 = OrderedFloat<f64>: the IEEE order (so -0.0 = +0.0), NaN
\* equal to NaN and above every number.
FloatCmp(a, b) ==
    IF IsNaN(a) THEN (IF IsNaN(b) THEN 0 ELSE 1)
    ELSE IF IsNaN(b) THEN -1
    ELSE IF Mag(a) = <<0, 0, 0, 0>> /\ Mag(b) = <<0, 0, 0, 0>> THEN 0
    ELSE IF Neg(a) /\ ~Neg(b) THEN -1
    ELSE IF ~Neg(a) /\ Neg(b) THEN 1
    ELSE IF Neg(a) THEN LexInt(Mag(b), Mag(a))
    ELSE LexInt(Mag(a), Mag(b))

\* #[derive(PartialOrd, Ord)] on Value, line 303: by variant first, then by the
\* field; Vec, BTreeSet and BTreeMap compare their contents in iteration order.
RECURSIVE Cmp(_, _)
RECURSIVE LexVal(_, _)
Cmp(a, b) ==
    IF a.tag # b.tag
    THEN (IF Discriminant(a.tag) < Discriminant(b.tag) THEN -1 ELSE 1)
    ELSE IF a.tag = "Float" THEN FloatCmp(a.sc, b.sc)
    ELSE IF a.tag \in {"Array", "Set", "Map", "Object"} THEN LexVal(a.kids, b.kids)
    ELSE LexInt(a.sc, b.sc)

LexVal(a, b) ==
    IF a = <<>> THEN (IF b = <<>> THEN 0 ELSE -1)
    ELSE IF b = <<>> THEN 1
    ELSE LET c == Cmp(a[1], b[1])
         IN  IF c # 0 THEN c ELSE LexVal(Tail(a), Tail(b))

\* BTreeSet::insert, as line 135 uses it: the set stays ordered and a value
\* equal to one already there is not added.
RECURSIVE BTreeSet_insert(_, _)
BTreeSet_insert(set, value) ==
    IF set = <<>> THEN <<value>>
    ELSE LET c == Cmp(value, set[1])
         IN  IF c < 0 THEN <<value>> \o set
             ELSE IF c = 0 THEN set
             ELSE <<set[1]>> \o BTreeSet_insert(Tail(set), value)

\* BTreeMap::insert, as lines 71 and 104 use it: the map stays ordered by key
\* and the value of a key already there is replaced.
RECURSIVE BTreeMap_insert(_, _, _)
BTreeMap_insert(map, key, value) ==
    IF map = <<>> THEN <<key, value>>
    ELSE LET c == Cmp(key, map[1])
         IN  IF c < 0 THEN <<key, value>> \o map
             ELSE IF c = 0 THEN <<map[1], value>> \o SubSeq(map, 3, Len(map))
             ELSE <<map[1], map[2]>> \o BTreeMap_insert(SubSeq(map, 3, Len(map)), key, value)

\* ------------------------------------------------------------------ the codec
\* A usize as four 16-bit limbs, most significant first.
usize(n) == <<0, 0, n \div 65536, n % 65536>>

\* i32::try_from(usize): Ok when the value is at most 2^31 - 1.
i32_try_from(u) ==
    IF u[1] = 0 /\ u[2] = 0 /\ u[3] < 32768
    THEN [ok |-> TRUE, val |-> u[3] * 65536 + u[4]]
    ELSE [ok |-> FALSE, val |-> 0]

\* BufMut::put_i32 and Buf::get_i32: four bytes, big-endian, two's complement.
put_i32(n) ==
    <<(n \div 16777216) % 256, (n \div 65536) % 256, (n \div 256) % 256, n % 256>>

get_i32(b) ==
    LET u == (b[1] % 128) * 16777216 + b[2] * 65536 + b[3] * 256 + b[4]
    IN  IF b[1] >= 128 THEN (u - 2147483647) - 1 ELSE u

\* put_i64 and get_i64 on the i64 values that fit the 32-bit integers of TLC:
\* the high word is the sign extension of the low one.
put_i64(n) ==
    (IF n < 0 THEN <<255, 255, 255, 255>> ELSE <<0, 0, 0, 0>>) \o put_i32(n)

get_i64(b) ==
    LET hi == get_i32(SubSeq(b, 1, 4))
        lo == get_i32(SubSeq(b, 5, 8))
    IN  IF (hi = 0 /\ lo >= 0) \/ (hi = -1 /\ lo < 0) THEN lo
        ELSE hi * 65536 * 65536 + lo

\* put_f64 and get_f64: the eight bytes of the bit pattern, big-endian.
put_f64(w) ==
    <<w[1] \div 256, w[1] % 256, w[2] \div 256, w[2] % 256,
      w[3] \div 256, w[3] % 256, w[4] \div 256, w[4] % 256>>

get_f64(b) ==
    <<b[1] * 256 + b[2], b[3] * 256 + b[4], b[5] * 256 + b[6], b[7] * 256 + b[8]>>

\* uniffi::check_remaining(buf, n).
check_remaining(buf, n) == Len(buf) >= n

\* Lines 56-57, 89-90 and 122-123: `i32::try_from(len).unwrap()` panics when
\* the length does not fit, else put_i32 writes it.
len_prefix(u) ==
    LET len == i32_try_from(u)
    IN  IF len.ok THEN [res |-> "written", buf |-> put_i32(len.val)]
        ELSE [res |-> "panic", buf |-> <<>>]

\* <String as FfiConverter>::write, also used for Vec<u8>: length, then bytes.
String_write(s) == put_i32(Len(s)) \o s

\* <Value as FfiConverter>::write, derived at line 303: the 1-based variant
\* index, then the field by its own converter.
RECURSIVE Value_write(_)
RECURSIVE write_each(_)
write_each(values) ==
    IF values = <<>> THEN <<>>
    ELSE Value_write(values[1]) \o write_each(Tail(values))

\* <Vec<Value> as FfiConverter>::write.
Vec_write(values) == put_i32(Len(values)) \o write_each(values)

\* ValueSet::write, lines 120-127.
ValueSet_write(set) == len_prefix(usize(Len(set))).buf \o write_each(set)

\* ValueMap::write, lines 87-95: the number of entries, then key and value of
\* each.
ValueMap_write(obj) == len_prefix(usize(Len(obj) \div 2)).buf \o write_each(obj)

\* ValueObject::write, lines 54-62: as ValueMap, the key by the String
\* converter.
RECURSIVE write_entries(_)
write_entries(obj) ==
    IF obj = <<>> THEN <<>>
    ELSE String_write(obj[1].sc) \o Value_write(obj[2])
         \o write_entries(SubSeq(obj, 3, Len(obj)))

ValueObject_write(obj) == len_prefix(usize(Len(obj) \div 2)).buf \o write_entries(obj)

Value_write(v) ==
    put_i32(Discriminant(v.tag)) \o
    CASE v.tag \in {"Id", "String", "Bytes"} -> String_write(v.sc)
      [] v.tag = "Null" -> <<>>
      [] v.tag = "Int" -> put_i64(v.sc[1])
      [] v.tag = "Float" -> put_f64(v.sc)
      [] v.tag = "Bool" -> <<v.sc[1]>>
      [] v.tag = "Array" -> Vec_write(v.kids)
      [] v.tag = "Set" -> ValueSet_write(v.kids)
      [] v.tag = "Map" -> ValueMap_write(v.kids)
      [] v.tag = "Object" -> ValueObject_write(v.kids)

\* What a try_read gives: Ok(val) with the bytes left in the buffer, or Err.
Ok(val, rest) == [ok |-> TRUE, val |-> val, rest |-> rest]
Fail == [ok |-> FALSE, val |-> NullV, rest |-> <<>>]

\* Buf::advance.
advance(buf, n) == SubSeq(buf, n + 1, Len(buf))

\* <String as FfiConverter>::try_read, also used for Vec<u8>.
String_try_read(buf) ==
    IF ~check_remaining(buf, 4) THEN Fail
    ELSE LET len == get_i32(buf)
             rest == advance(buf, 4)
         IN  IF len < 0 \/ ~check_remaining(rest, len) THEN Fail
             ELSE Ok(SubSeq(rest, 1, len), advance(rest, len))

RECURSIVE Value_try_read(_)

\* <Vec<Value> as FfiConverter>::try_read: push in the order read.
RECURSIVE read_vec(_, _, _)
read_vec(buf, n, vec) ==
    IF n = 0 THEN Ok(vec, buf)
    ELSE LET r == Value_try_read(buf)
         IN  IF ~r.ok THEN Fail ELSE read_vec(r.rest, n - 1, Append(vec, r.val))

Vec_try_read(buf) ==
    IF ~check_remaining(buf, 4) \/ get_i32(buf) < 0 THEN Fail
    ELSE read_vec(advance(buf, 4), get_i32(buf), <<>>)

\* Mutant of read_set: the values are kept in the order read.
RECURSIVE read_set_push(_, _, _)
read_set_push(buf, n, set) ==
    IF n = 0 THEN Ok(set, buf)
    ELSE LET r == Value_try_read(buf)
         IN  IF ~r.ok THEN Fail ELSE read_set_push(r.rest, n - 1, Append(set, r.val))

\* ValueSet::try_read, lines 129-138: `map.insert(value)` for each value read.
RECURSIVE read_set(_, _, _)
read_set(buf, n, set) ==
    IF n = 0 THEN Ok(set, buf)
    ELSE LET r == Value_try_read(buf)
         IN  IF ~r.ok THEN Fail ELSE read_set(r.rest, n - 1, BTreeSet_insert(set, r.val))

ValueSet_try_read(buf) ==
    IF ~check_remaining(buf, 4) \/ get_i32(buf) < 0 THEN Fail
    ELSE read_set(advance(buf, 4), get_i32(buf), <<>>)

\* ValueMap::try_read, lines 97-107: key, value, `map.insert(key, value)`.
RECURSIVE read_map(_, _, _)
read_map(buf, n, map) ==
    IF n = 0 THEN Ok(map, buf)
    ELSE LET k == Value_try_read(buf)
         IN  IF ~k.ok THEN Fail
             ELSE LET v == Value_try_read(k.rest)
                  IN  IF ~v.ok THEN Fail
                      ELSE read_map(v.rest, n - 1, BTreeMap_insert(map, k.val, v.val))

ValueMap_try_read(buf) ==
    IF ~check_remaining(buf, 4) \/ get_i32(buf) < 0 THEN Fail
    ELSE read_map(advance(buf, 4), get_i32(buf), <<>>)

\* ValueObject::try_read, lines 64-74: the key by the String converter.
RECURSIVE read_object(_, _, _)
read_object(buf, n, map) ==
    IF n = 0 THEN Ok(map, buf)
    ELSE LET k == String_try_read(buf)
         IN  IF ~k.ok THEN Fail
             ELSE LET v == Value_try_read(k.rest)
                  IN  IF ~v.ok THEN Fail
                      ELSE read_object(v.rest, n - 1,
                                       BTreeMap_insert(map, StringV(k.val), v.val))

ValueObject_try_read(buf) ==
    IF ~check_remaining(buf, 4) \/ get_i32(buf) < 0 THEN Fail
    ELSE read_object(advance(buf, 4), get_i32(buf), <<>>)

\* The field of a variant read by `read`, wrapped in the variant.
Wrap(tag, r) ==
    IF ~r.ok THEN Fail
    ELSE IF tag \in {"Id", "String", "Bytes"} THEN Ok(V(tag, r.val, <<>>), r.rest)
    ELSE Ok(V(tag, <<>>, r.val), r.rest)

\* <Value as FfiConverter>::try_read, derived at line 303: the variant index,
\* then the field; an index that names no variant is an error.
Value_try_read(buf) ==
    IF ~check_remaining(buf, 4) THEN Fail
    ELSE LET idx == get_i32(buf)
             rest == advance(buf, 4)
         IN  IF idx < 1 \/ idx > Len(Tags) THEN Fail
             ELSE LET tag == Tags[idx]
                  IN  CASE tag \in {"Id", "String", "Bytes"} -> Wrap(tag, String_try_read(rest))
                        [] tag = "Null" -> Ok(NullV, rest)
                        [] tag = "Int" ->
                             IF ~check_remaining(rest, 8) THEN Fail
                             ELSE Ok(IntV(get_i64(rest)), advance(rest, 8))
                        [] tag = "Float" ->
                             IF ~check_remaining(rest, 8) THEN Fail
                             ELSE Ok(FloatV(get_f64(rest)), advance(rest, 8))
                        [] tag = "Bool" ->
                             IF ~check_remaining(rest, 1) \/ rest[1] \notin {0, 1} THEN Fail
                             ELSE Ok(BoolV(rest[1]), advance(rest, 1))
                        [] tag = "Array" -> Wrap(tag, Vec_try_read(rest))
                        [] tag = "Set" -> Wrap(tag, ValueSet_try_read(rest))
                        [] tag = "Map" -> Wrap(tag, ValueMap_try_read(rest))
                        [] tag = "Object" -> Wrap(tag, ValueObject_try_read(rest))

\* ------------------------------------------------------------- codec inputs
\* Largest number of elements (entries) of a collection under test.
MaxElems == 2

\* f64 bit patterns: +0.0, -0.0, 1.0, -1.0 and a NaN.
PosZero == <<0, 0, 0, 0>>
NegZero == <<32768, 0, 0, 0>>
One == <<16368, 0, 0, 0>>
MinusOne == <<49136, 0, 0, 0>>
NaN == <<32760, 0, 0, 0>>

Scalars ==
    {IdV(<<97>>), NullV, IntV(-1), IntV(0), IntV(300), IntV(2147483647),
     FloatV(PosZero), FloatV(NegZero), FloatV(One), FloatV(MinusOne), FloatV(NaN),
     BoolV(0), BoolV(1), StringV(<<>>), StringV(<<97>>), StringV(<<97, 98>>),
     BytesV(<<>>), BytesV(<<0, 255>>)}

\* Elements and keys of the collections under test, pairwise different in the
\* order of Value.
Elems == {NullV, IntV(-1), IntV(300), FloatV(NegZero), FloatV(NaN), StringV(<<97>>)}

\* Keys of the Objects under test: "", "a", "b".
Keys == {StringV(<<>>), StringV(<<97>>), StringV(<<98>>)}

\* The sequence of a finite set of Values in the order of Value.
RECURSIVE Sorted(_)
Sorted(S) ==
    IF S = {} THEN <<>>
    ELSE LET m == CHOOSE x \in S : \A y \in S : Cmp(x, y) <= 0
         IN  <<m>> \o Sorted(S \ {m})

\* k1, v1, k2, v2, ... for the keys in order and the value f gives each.
RECURSIVE Entries(_, _)
Entries(keys, f) ==
    IF keys = <<>> THEN <<>>
    ELSE <<keys[1], f[keys[1]]>> \o Entries(Tail(keys), f)

SmallSubsets(S) == {T \in SUBSET S : Cardinality(T) <= MaxElems}
SeqsUpTo(S) == UNION {[1..n -> S] : n \in 0..MaxElems}

\* Collections of up to MaxElems elements drawn from E, keys from K.
ArraysOf(E) == {V("Array", <<>>, a) : a \in SeqsUpTo(E)}
SetsOf(E) == {V("Set", <<>>, Sorted(T)) : T \in SmallSubsets(E)}
MapsOf(K, E) ==
    UNION {{V("Map", <<>>, Entries(Sorted(T), f)) : f \in [T -> E]} : T \in SmallSubsets(K)}
ObjectsOf(K, E) ==
    UNION {{V("Object", <<>>, Entries(Sorted(T), f)) : f \in [T -> E]} : T \in SmallSubsets(K)}

Flat == ArraysOf(Elems) \cup SetsOf(Elems) \cup MapsOf(Elems, {NullV, IntV(0)})
            \cup ObjectsOf(Keys, {NullV, IntV(0)})

\* Collections to nest: the four empty ones and one of each with contents.
Inner ==
    {V("Array", <<>>, <<>>), V("Set", <<>>, <<>>), V("Map", <<>>, <<>>),
     V("Object", <<>>, <<>>),
     V("Array", <<>>, <<IntV(300), NullV>>),
     V("Set", <<>>, Sorted({StringV(<<97>>), IntV(-1)})),
     V("Map", <<>>, <<NullV, V("Set", <<>>, <<>>)>>),
     V("Object", <<>>, <<StringV(<<98>>), V("Array", <<>>, <<NullV>>)>>)}

Nested == ArraysOf(Inner) \cup SetsOf(Inner) \cup MapsOf(Inner, {NullV, V("Set", <<>>, <<NullV>>)})
              \cup ObjectsOf(Keys, Inner)

TestValues == Scalars \cup Flat \cup Nested

\* --------------------------------------------------------------- codec runs
\* Number of elements of a Set, of entries of a Map or an Object.
Count(v) == IF v.tag = "Set" THEN Len(v.kids) ELSE Len(v.kids) \div 2

\* The bytes of element (entry) j of a Set, Map or Object, as its write makes
\* them.
ElementBytes(v, j) ==
    CASE v.tag = "Set" -> Value_write(v.kids[j])
      [] v.tag = "Map" -> Value_write(v.kids[2 * j - 1]) \o Value_write(v.kids[2 * j])
      [] v.tag = "Object" ->
           String_write(v.kids[2 * j - 1].sc) \o Value_write(v.kids[2 * j])

RECURSIVE ElementsIn(_, _)
ElementsIn(v, order) ==
    IF order = <<>> THEN <<>>
    ELSE ElementBytes(v, order[1]) \o ElementsIn(v, Tail(order))

Orders(n) == {p \in [1..n -> 1..n] : \A i, j \in 1..n : p[i] = p[j] => i = j}
Identity(n) == [i \in 1..n |-> i]

\* The Rust side lowers kval: <Value as FfiConverter>::write into the buffer.
lower ==
    /\ kphase = "start" /\ kkind = "none"
    /\ kbuf' = Value_write(kval) \o ktail
    /\ kperm' = IF kval.tag \in {"Set", "Map", "Object"} THEN Identity(Count(kval)) ELSE <<>>
    /\ kphase' = "written"
    /\ UNCHANGED <<kval, ktail, kout, kkind, klen, kres>>
    /\ UNCHANGED <<cvars, svars>>

\* The foreign side lowers a Set, Map or Object equal to kval, its elements in
\* an order of its own.
foreign_lower(order) ==
    /\ kphase = "start" /\ kkind = "none"
    /\ kval.tag \in {"Set", "Map", "Object"}
    /\ order \in Orders(Count(kval)) \ {Identity(Count(kval))}
    /\ kbuf' = put_i32(Discriminant(kval.tag)) \o put_i32(Count(kval))
                 \o ElementsIn(kval, order) \o ktail
    /\ kperm' = order
    /\ kphase' = "written"
    /\ UNCHANGED <<kval, ktail, kout, kkind, klen, kres>>
    /\ UNCHANGED <<cvars, svars>>

\* The Rust side lifts the buffer: <Value as FfiConverter>::try_read.
try_read ==
    /\ kphase = "written" /\ kkind = "none"
    /\ kout' = Value_try_read(kbuf)
    /\ kphase' = "read"
    /\ UNCHANGED <<kval, kperm, ktail, kbuf, kkind, klen, kres>>
    /\ UNCHANGED <<cvars, svars>>

\* Lengths around the largest i32, 2^31 - 1 = <<0, 0, 32767, 65535>>.
Lengths ==
    {<<0, c, a, b>> : c \in {0, 1}, a \in {0, 1, 32767, 32768, 32769, 65535},
                      b \in {0, 1, 65535}}

\* write of an Object, Map or Set of klen elements, up to its length prefix
\* (lines 56-57, 89-90, 122-123).
write_len ==
    /\ kphase = "start" /\ kkind # "none"
    /\ kres' = len_prefix(klen).res
    /\ kbuf' = len_prefix(klen).buf
    /\ kphase' = len_prefix(klen).res
    /\ UNCHANGED <<kval, kperm, ktail, kout, kkind, klen>>
    /\ UNCHANGED <<cvars, svars>>

\* ------------------------------------------------------------ specification
MainInit ==
    /\ inner = new
    /\ lock = 0
    /\ cpc = [c \in Callers |-> "idle"]
    /\ cop = [c \in Callers |-> "none"]
    /\ cres = [c \in Callers |-> "none"]
    /\ newres = [c \in Callers |-> "none"]
    /\ sub = "none"
    /\ sender = "None"
    /\ chan = "empty"
    /\ recancel = FALSE
    /\ nsend = 0
    /\ task = "none"
    /\ active = 0
    /\ feed = <<>>
    /\ feedEnd = FALSE
    /\ afterEnd = "None"
    /\ consumed = <<>>
    /\ delivered = <<>>
    /\ sawEnd = FALSE

Init ==
    /\ MainInit
    /\ kphase = "off"
    /\ kval = NullV
    /\ kperm = <<>>
    /\ ktail = <<>>
    /\ kbuf = <<>>
    /\ kout = Fail
    /\ kkind = "none"
    /\ klen = usize(0)
    /\ kres = "none"

Next ==
    \/ \E c \in Callers, op \in Ops : Call(c, op)
    \/ \E c \in Callers : connect_lock(c)
    \/ \E c \in Callers : connect(c)
    \/ \E c \in Callers : close(c)
    \/ \E c \in Callers : client_guard(c)
    \/ \E c \in Callers : query(c)
    \/ \E c \in Callers : mutation(c)
    \/ \E c \in Callers : action(c)
    \/ \E c \in Callers : subscribe(c)
    \/ \E item \in FunctionResult : feed_push(item)
    \/ feed_close
    \/ loop
    \/ task_update
    \/ update_return
    \/ task_error
    \/ task_none
    \/ task_break
    \/ cancel
    \/ drop

Spec == Init /\ [][Next]_vars

\* The tokio runtime keeps polling a spawned task that can make progress, and
\* the foreign callback returns.
TaskStep == loop \/ task_update \/ task_error \/ task_none \/ task_break
FairSpec == Spec /\ WF_vars(TaskStep) /\ WF_vars(update_return)

\* A Value crosses the boundary and comes back.
CodecInit ==
    /\ MainInit
    /\ kphase = "start"
    /\ kval \in TestValues
    /\ ktail \in {<<>>, <<7>>}
    /\ kperm = <<>>
    /\ kbuf = <<>>
    /\ kout = Fail
    /\ kkind = "none"
    /\ klen = usize(0)
    /\ kres = "none"

CodecNext ==
    \/ lower
    \/ \E order \in Orders(MaxElems) \cup Orders(MaxElems - 1) : foreign_lower(order)
    \/ try_read

CodecSpec == CodecInit /\ [][CodecNext]_vars

\* A collection of a given length is written.
LenInit ==
    /\ MainInit
    /\ kphase = "start"
    /\ kval = NullV
    /\ ktail = <<>>
    /\ kperm = <<>>
    /\ kbuf = <<>>
    /\ kout = Fail
    /\ kkind \in {"Object", "Map", "Set"}
    /\ klen \in Lengths
    /\ kres = "none"

LenNext == write_len

LenSpec == LenInit /\ [][LenNext]_vars


\* ------------------------------------------------------------- properties
IsValue(item) == item.tag = "Value"

\* The values of the Value items of a sequence of feed items, in order.
Values(items) ==
    LET sel == SelectSeq(items, IsValue) IN [i \in 1..Len(sel) |-> sel[i].value]

IsPrefix(a, b) == Len(a) <= Len(b) /\ SubSeq(b, 1, Len(a)) = a

\* Everything the server pushed so far, in arrival order.
Arrived == consumed \o feed

\* C1 (as claimed): once the cancellation trigger has been sent, the task
\* makes no further Callback.update invocation, even when updates are ready on
\* the feed when the task next runs its select.
C1_NoUpdateAfterCancel ==
    [][nsend > 0 => delivered' = delivered]_vars

\* C2: with no live session, each of query, mutation, action and subscribe that
\* gets the lock returns the no-client error at once: the external client is
\* not called (the caller never awaits a remote call), no subscription task is
\* spawned and the session slot and the lock are left as they were; and no
\* caller is ever inside a remote call while the slot is empty.
C2_NoSessionGuard ==
    /\ [](\A c \in Callers : cpc[c] = "remote" => inner # None)
    /\ [][\A c \in Callers :
            (inner = None /\ cpc[c] = "lock" /\ cop[c] \in GuardedOps /\ cpc'[c] # "lock")
            => /\ cpc'[c] = "idle"
               /\ cres'[c] = "NoClientSet"
               /\ inner' = None
               /\ lock' = lock
               /\ task' = task /\ sub' = sub /\ sender' = sender]_vars

C2_Witness ==
    \E c \in Callers : cres[c] = "NoClientSet" /\ cpc[c] = "idle" /\ inner = None

\* C3: the trigger is sent at most once; a send happens only by taking the
\* sender out of the handle and invokes no callback; a cancel() or a drop of
\* the handle after the sender was taken sends nothing and leaves the channel,
\* the task and the callback log as they were; and once the task took
\* end-of-stream or exited, no cancel leads to a callback invocation.
C3_CancelIdempotent ==
    /\ [](nsend <= 1)
    /\ [][/\ nsend' # nsend =>
               (sender = "Some" /\ sender' = "None" /\ delivered' = delivered
                /\ active' = active /\ task' = task)
          /\ (sender = "None" /\ sub = "live" /\ sub' = "dropped") =>
               (nsend' = nsend /\ chan' = chan /\ sender' = sender /\ task' = task
                /\ delivered' = delivered)
          /\ (recancel' /\ ~recancel) =>
               (nsend' = nsend /\ chan' = chan /\ sender' = sender /\ task' = task
                /\ delivered' = delivered /\ sub' = sub)
          /\ (sawEnd \/ task = "exited") => delivered' = delivered]_vars

C3_Witness ==
    recancel /\ nsend = 1 /\ sub = "dropped" /\ sawEnd /\ task = "exited"

\* C4: an ErrorMessage item taken from the feed invokes no callback and leaves
\* the task in its loop; a feed consumed as one ErrorMessage then one Value has
\* produced exactly one callback invocation, with the value of the second item.
C4_ServerErrorSurvival ==
    /\ [](\A v \in Payloads :
            consumed = <<[tag |-> "ErrorMessage", value |-> "msg"],
                         [tag |-> "Value", value |-> v]>> => delivered = <<v>>)
    /\ [][(Len(consumed') = Len(consumed) + 1
           /\ consumed'[Len(consumed')].tag = "ErrorMessage")
          => (delivered' = delivered /\ active' = active /\ task' = "select")]_vars

C4_Witness ==
    /\ consumed = <<[tag |-> "ErrorMessage", value |-> "msg"],
                    [tag |-> "Value", value |-> "v2"]>>
    /\ delivered = <<"v2">>
    /\ task = "select"

C6_OrderedSerialized ==
    /\ [](/\ delivered = Values(consumed)
          /\ active <= 1
          /\ (active = 1) = (task = "update"))
    /\ [][IsPrefix(consumed, consumed') /\ IsPrefix(consumed', Arrived)]_vars

C6_Witness ==
    /\ consumed = <<[tag |-> "Value", value |-> "v2"], [tag |-> "Value", value |-> "v1"]>>
    /\ delivered = <<"v2", "v1">>
    /\ active = 0

\* C9 (as claimed): when the feed is exhausted before any cancellation, the
\* task leaves its loop and exits.
C9_FeedEndExits ==
    (sawEnd /\ nsend = 0) ~> (task = "exited")

\* C10 (as claimed): once the trigger has been sent, by cancel() or by the drop
\* of the handle, the task eventually exits, whatever the feed does.
C10_CancelTerminates ==
    (nsend > 0) ~> (task = "exited")

\* Every Set is strictly increasing, every Map and Object strictly increasing
\* by key, at every depth.
RECURSIVE Canonical(_)
Canonical(v) ==
    /\ \A i \in 1..Len(v.kids) : Canonical(v.kids[i])
    /\ v.tag = "Set" => \A i \in 1..(Len(v.kids) - 1) : Cmp(v.kids[i], v.kids[i + 1]) < 0
    /\ v.tag \in {"Map", "Object"} =>
         \A i \in 1..(Len(v.kids) \div 2 - 1) : Cmp(v.kids[2 * i - 1], v.kids[2 * i + 1]) < 0

\* C7: reading what was written for a Value gives that Value back, in
\* canonical order, and leaves exactly the bytes that follow the encoding;
\* so too when the elements of a Set, Map or Object were written in another
\* order.
C7_RoundTrip ==
    kphase = "read" =>
        /\ kout.ok
        /\ kout.val = kval
        /\ kout.rest = ktail
        /\ Canonical(kout.val)

C7_Witness ==
    /\ kphase = "read"
    /\ kval.tag = "Set"
    /\ kperm = <<2, 1>>
    /\ kval.kids[2].tag = "Map"
    /\ ktail # <<>>
    /\ kout.val = kval

\* The length does not fit a signed 32-bit integer: it is 2^31 or more.
TooLong(u) == u[1] > 0 \/ u[2] > 0 \/ u[3] >= 32768

\* C8 (as claimed): writing an Object, Map or Set of 2^31 or more elements ends
\* in a reported CodecOverflow error, not in a truncated prefix or a panic.
C8_LengthBound ==
    (kphase # "start" /\ TooLong(klen)) => (kres = "CodecOverflow" /\ kbuf = <<>>)

\* The callers whose operation is between taking the guard and returning.
Holders == {c \in Callers : cpc[c] \in {"new", "remote"}}

\* C11: at most one operation holds the session lock; a caller holds it from
\* the step that takes it to the step in which its operation returns, the
\* awaited ConvexClient call included; the slot holds no session or one; the
\* slot changes only in a step of the operation that has the lock; and the lock
\* is never held for the subscription task: with no operation between
\* acquisition and return the lock is free, whatever the task is doing, and no
\* step of the spawned task takes, releases or needs the lock.
C11_SessionMutex ==
    /\ [](/\ Cardinality(Holders) <= 1
          /\ \A c \in Callers : (c \in Holders) = (lock = c)
          /\ lock \in {0} \cup Callers
          /\ inner \in {None} \cup Callers)
    /\ [][/\ \A c \in Callers :
               (lock = c /\ lock' # c) => (cpc'[c] = "idle" /\ cres'[c] # "none" /\ lock' = 0)
          /\ \A c \in Callers :
               (lock # c /\ lock' = c) => (lock = 0 /\ cpc[c] = "lock")
          /\ inner' # inner =>
               \E c \in Callers :
                 /\ cpc'[c] = "idle" /\ cres'[c] = "unit"
                 /\ \/ (lock = c /\ cpc[c] = "new")
                    \/ (lock = 0 /\ cpc[c] = "lock" /\ cop[c] = "close")
          /\ ((task # "none" /\ task' # task) \/ delivered' # delivered) =>
               (lock' = lock /\ inner' = inner)]_vars

\* A callback of the subscription is running while one caller is inside its
\* remote call with the lock and the other waits for the lock.
C11_Witness ==
    /\ task = "update"
    /\ \E c \in Callers :
         /\ cpc[c] = "remote" /\ cop[c] = "query" /\ lock = c
         /\ \E d \in Callers \ {c} : cpc[d] = "lock" /\ cop[d] = "connect"

====
